---------------------------- MODULE Spec2Model ----------------------------
(***************************************************************************)
(* Model of the metrics engine of dataset_bias_metrics                     *)
(* (representational.py, stereotypical.py, local_stereotypical.py).        *)
(*                                                                         *)
(* The state is a dataset (a pandas DataFrame with the two columns "x" and *)
(* "y") and the outcome of the last metric call.  Every metric function is *)
(* one action: it reads the dataset, builds its own tables in the frame of *)
(* the call (heap) and leaves its return value in res.  A cell of the      *)
(* dataset is a category or 0, the missing value (NaN / None), which       *)
(* value_counts, groupby and nunique drop per column and crosstab drops    *)
(* per sample.                                                             *)
(*                                                                         *)
(* Numbers.  Counts and probabilities are exact rationals n/d.  A float    *)
(* value is a record [k, n, d, m, e]:                                      *)
(*   k = "num"    the rational n/d                                         *)
(*   k = "nan"    not-a-number                                             *)
(*   k = "inf"    infinity of sign n                                       *)
(*   k = "ln"     ln(n/d)                 (n/d not in {0, 1})              *)
(*   k = "nln"    -ln(n/d)                (n/d not in {0, 1})              *)
(*   k = "lnq"    ln(n/d) / (-ln(m/e))                                     *)
(*   k = "lnr"    ln(n/d) / ln(m/e)                                        *)
(*   k = "hln"    ln(n/d) / m             (an entropy, > 0)                *)
(*   k = "root"   (n/d)^(1/m)                                              *)
(*   k = "sqrt"   sqrt(n/d)                                                *)
(*   k = "error"  the call raised instead of returning                     *)
(*   k = "div", "sub", "neg"   a / b, a - b and -a of such values, kept    *)
(*                as terms [k, a, b] and [k, a]                            *)
(* Logarithms are kept symbolic and are simplified only where the IEEE     *)
(* result is exact: ln(1) = 0, ln(0) = -inf.  Rounding of the binary       *)
(* floating point operations is not modelled: arithmetic on probabilities  *)
(* is exact.                                                               *)
(***************************************************************************)
EXTENDS Integers, Sequences, FiniteSets, TLC

VARIABLES
    df,       \* the dataset: a frame whose rows are <<value of x, value of y>>
    df0,      \* the dataset as it was handed to the engine (never assigned)
    pc,       \* "idle": no call in progress; "returned": res holds an outcome
    res,      \* the last call: [fn, args, ret] and what it evaluated
    heap,     \* the frame of the last call when it ended
    metrics_as_bias   \* the bias-oriented registry: symbol -> entry

vars == <<df, df0, pc, res, heap, metrics_as_bias>>

(***************************************************************************)
(* Bounds of the model.                                                    *)
(***************************************************************************)
MaxRows == 4

\* Category labels of both attributes; 0 stands for a missing value (NaN/None).
Categories == {1, 2}
CellValues == Categories \cup {0}
IsNA(v) == v \notin Categories
Attributes == {"x", "y"}
AttributePairs == {<<"x", "y">>, <<"y", "x">>}

(***************************************************************************)
(* Exact rationals.                                                        *)
(***************************************************************************)
Abs(i) == IF i < 0 THEN -i ELSE i

RECURSIVE GCD(_, _)
GCD(a, b) == IF b = 0 THEN a ELSE GCD(b, a % b)

LCM(a, b) == (a * b) \div GCD(a, b)

Rat(n, d) ==
    LET g == GCD(Abs(n), Abs(d))
        s == IF d < 0 THEN -1 ELSE 1
    IN  [n |-> (s * n) \div g, d |-> (s * d) \div g]

RAdd(a, b) == Rat(a.n * b.d + b.n * a.d, a.d * b.d)
RSub(a, b) == Rat(a.n * b.d - b.n * a.d, a.d * b.d)
RMul(a, b) == Rat(a.n * b.n, a.d * b.d)
RDiv(a, b) == Rat(a.n * b.d, a.d * b.n)
RLt(a, b) == a.n * b.d < b.n * a.d
RMin(a, b) == IF RLt(b, a) THEN b ELSE a
RMax(a, b) == IF RLt(a, b) THEN b ELSE a
RZero == Rat(0, 1)
ROne == Rat(1, 1)

RECURSIVE RPow(_, _)
RPow(a, k) == IF k = 0 THEN ROne ELSE RMul(a, RPow(a, k - 1))

(***************************************************************************)
(* Float values.                                                           *)
(***************************************************************************)
Val(k, p, q) == [k |-> k, n |-> p.n, d |-> p.d, m |-> q.n, e |-> q.d]
Num(r) == Val("num", r, RZero)
IntV(i) == Num(Rat(i, 1))
NaN == Val("nan", RZero, RZero)
Inf(s) == Val("inf", Rat(s, 1), RZero)
Error == Val("error", RZero, RZero)
R(v) == [n |-> v.n, d |-> v.d]
R2(v) == [n |-> v.m, d |-> v.e]
IsNum(v) == v.k = "num"
IsZero(v) == v.k = "num" /\ v.n = 0
\* Sign of a float value: -1, 0 or 1 (0 also for NaN, which compares false).
Sign(v) ==
    CASE v.k = "num" -> IF v.n > 0 THEN 1 ELSE IF v.n < 0 THEN -1 ELSE 0
      [] v.k = "inf" -> v.n
      [] v.k = "ln" -> IF v.n > v.d THEN 1 ELSE -1
      [] v.k = "nln" -> IF v.n > v.d THEN -1 ELSE 1
      [] v.k = "lnq" ->
            (IF v.n > v.d THEN 1 ELSE -1) * (IF v.m > v.e THEN -1 ELSE 1)
      [] v.k = "lnr" ->
            (IF v.n > v.d THEN 1 ELSE -1) * (IF v.m > v.e THEN 1 ELSE -1)
      [] v.k \in {"hln", "root", "sqrt"} -> 1
      [] OTHER -> 0

\* np.log of a probability or of a ratio of probabilities.
NpLog(v) ==
    CASE v.k = "nan" -> NaN
      [] v.k = "inf" -> IF v.n > 0 THEN Inf(1) ELSE NaN
      [] v.k = "num" /\ v.n = 0 -> Inf(-1)
      [] v.k = "num" /\ v.n < 0 -> NaN
      [] v.k = "num" /\ v.n = v.d -> IntV(0)
      [] OTHER -> Val("ln", R(v), RZero)

\* Unary minus.
NpNeg(v) ==
    CASE v.k = "num" -> Num(Rat(-v.n, v.d))
      [] v.k = "inf" -> Inf(-v.n)
      [] v.k = "nan" -> NaN
      [] v.k = "ln" -> Val("nln", R(v), RZero)
      [] v.k = "nln" -> Val("ln", R(v), RZero)
      [] OTHER -> [k |-> "neg", a |-> v]

\* a / b under np.errstate(divide='ignore'): x/0 is +-inf, 0/0 is NaN.
NpDiv(a, b) ==
    CASE a.k = "nan" \/ b.k = "nan" -> NaN
      [] a.k = "inf" /\ b.k = "inf" -> NaN
      [] a.k = "inf" -> IF Sign(b) < 0 THEN Inf(-a.n) ELSE a
      [] b.k = "inf" -> IntV(0)
      [] IsZero(b) -> IF Sign(a) = 0 THEN NaN ELSE Inf(Sign(a))
      [] IsZero(a) -> IntV(0)
      [] a = b -> IntV(1)
      [] a.k = "num" /\ b.k = "num" -> Num(RDiv(R(a), R(b)))
      [] a.k = "ln" /\ b.k = "nln" ->
            IF RMul(R(a), R(b)) = ROne THEN IntV(1)
            ELSE Val("lnq", R(a), R(b))
      [] a.k = "ln" /\ b.k = "ln" -> Val("lnr", R(a), R(b))
      [] a.k = "hln" /\ b.k = "ln" ->
            IF R(a) = RPow(R(b), a.m) THEN IntV(1)
            ELSE Val("lnr", R(a), RPow(R(b), a.m))
      [] OTHER -> [k |-> "div", a |-> a, b |-> b]

\* a - b; x - x is 0 for every finite x.
NpSub(a, b) ==
    CASE a.k = "nan" \/ b.k = "nan" -> NaN
      [] a.k = "inf" /\ b.k = "inf" -> IF a.n = b.n THEN NaN ELSE a
      [] a.k = "inf" -> a
      [] b.k = "inf" -> Inf(-b.n)
      [] a = b -> IntV(0)
      [] IsZero(b) -> a
      [] IsZero(a) -> NpNeg(b)
      [] a.k = "num" /\ b.k = "num" -> Num(RSub(R(a), R(b)))
      [] OTHER -> [k |-> "sub", a |-> a, b |-> b]

(***************************************************************************)
(* pandas / numpy primitives on columns and count vectors.                 *)
(***************************************************************************)
\* A DataFrame: row labels, column labels and the cells, row by row.
Frame(index, columns, data) ==
    [index |-> index, columns |-> columns, data |-> data]

\* The dataset built from a list of samples.
DataFrame(rows) == Frame([i \in 1..Len(rows) |-> i], <<"x", "y">>, rows)

ColPos(d, a) == CHOOSE j \in 1..Len(d.columns) : d.columns[j] = a

\* df[a]: one column of the dataset, in row order.
Column(d, a) == [i \in 1..Len(d.data) |-> d.data[i][ColPos(d, a)]]

RECURSIVE SeqSum(_)
SeqSum(s) == IF s = <<>> THEN 0 ELSE Head(s) + SeqSum(Tail(s))

RECURSIVE SeqMax(_)
SeqMax(s) == IF Len(s) = 1 THEN s[1]
             ELSE LET t == SeqMax(Tail(s)) IN IF s[1] > t THEN s[1] ELSE t

RECURSIVE SeqMin(_)
SeqMin(s) == IF Len(s) = 1 THEN s[1]
             ELSE LET t == SeqMin(Tail(s)) IN IF s[1] < t THEN s[1] ELSE t

RECURSIVE SortedSeq(_)
SortedSeq(S) ==
    IF S = {} THEN <<>>
    ELSE LET lo == CHOOSE v \in S : \A w \in S : v <= w
         IN  <<lo>> \o SortedSeq(S \ {lo})

CountOf(col, v) == Cardinality({i \in 1..Len(col) : col[i] = v})

\* Labels of a column in order of first appearance, missing values dropped.
RECURSIVE FirstSeen(_, _)
FirstSeen(col, seen) ==
    IF col = <<>> THEN <<>>
    ELSE IF IsNA(Head(col)) \/ Head(col) \in seen
         THEN FirstSeen(Tail(col), seen)
         ELSE <<Head(col)>> \o FirstSeen(Tail(col), seen \cup {Head(col)})

\* Series.value_counts(sort=False): [key, cnt] per observed label (dropna).
ValueCounts(col) ==
    LET keys == FirstSeen(col, {})
    IN  [i \in 1..Len(keys) |-> [key |-> keys[i], cnt |-> CountOf(col, keys[i])]]

\* Series.sort_index(): the same entries by ascending label.
SortIndex(vc) ==
    LET keys == SortedSeq({vc[i].key : i \in 1..Len(vc)})
    IN  [i \in 1..Len(keys) |->
            (CHOOSE t \in {vc[j] : j \in 1..Len(vc)} : t.key = keys[i])]

\* .to_numpy() of a counts Series: the counts alone.
ToNumpy(vc) == [i \in 1..Len(vc) |-> vc[i].cnt]

\* df.groupby(a).size(): counts by ascending label, missing labels dropped.
GroupbySize(d, a) ==
    LET col == Column(d, a)
        keys == SortedSeq({col[i] : i \in 1..Len(col)} \cap Categories)
    IN  [i \in 1..Len(keys) |-> CountOf(col, keys[i])]

\* Series.nunique(): number of distinct non-missing labels.
NUnique(col) == Cardinality({col[i] : i \in 1..Len(col)} \cap Categories)

\* counts / counts.sum(): the probability vector (empty for no counts).
Normalize(counts) ==
    [i \in 1..Len(counts) |-> Rat(counts[i], SeqSum(counts))]

\* np.max / Series.max of a count vector: NaN when it is empty.
NpMax(counts) == IF counts = <<>> THEN NaN ELSE IntV(SeqMax(counts))
NpMin(counts) == IF counts = <<>> THEN NaN ELSE IntV(SeqMin(counts))
NpSum(counts) == IntV(SeqSum(counts))

RECURSIVE RSeqSum(_)
RSeqSum(s) == IF s = <<>> THEN RZero ELSE RAdd(Head(s), RSeqSum(Tail(s)))

RECURSIVE DenLCM(_)
DenLCM(p) == IF p = <<>> THEN 1 ELSE LCM(Head(p).d, DenLCM(Tail(p)))

\* prod over i of (1/b[i])^(a[i]*L), the argument of the logarithm in
\* -sum(a * ln b) = ln(prod) / L, for weights a with common denominator L.
RECURSIVE LnArg(_, _, _)
LnArg(a, b, L) ==
    IF a = <<>> THEN ROne
    ELSE RMul(RPow(RDiv(ROne, Head(b)), (Head(a).n * L) \div Head(a).d),
              LnArg(Tail(a), Tail(b), L))

\* -np.sum(a * np.log(b)) for weights a > 0 over the common denominator L
\* and arguments b > 0.
NegSumALogB(a, b, L) ==
    LET A == LnArg(a, b, L)
    IN  IF A = ROne THEN IntV(0) ELSE Val("hln", A, Rat(L, 1))

\* -np.sum(p * np.log(p)): the Shannon entropy of a probability vector.
NegSumPLogP(p) == NegSumALogB(p, p, DenLCM(p))

\* np.exp of an entropy.
NpExp(v) == IF IsZero(v) THEN IntV(1) ELSE Val("root", R(v), R2(v))

\* np.power(s, 1.0/(1.0-q)) for a sum s >= 0 and an integer degree q # 1.
NpPowerInv(s, q) ==
    CASE q = 0 -> Num(s)
      [] s.n = 0 -> Inf(1)
      [] q = 2 -> Num(RDiv(ROne, s))
      [] OTHER -> Val("root", RDiv(ROne, s), Rat(q - 1, 1))

\* np.sqrt of a rational >= 0.
NpSqrt(r) == IF r.n = 0 THEN IntV(0) ELSE Val("sqrt", r, RZero)

(***************************************************************************)
(* representational.py                                                     *)
(***************************************************************************)
Degrees == {0, 1, 2, 3}

truediversity(d, a, q) ==
    LET p == Normalize(GroupbySize(d, a))
    IN  IF q # 1
        THEN NpPowerInv(RSeqSum([i \in 1..Len(p) |-> RPow(p[i], q)]), q)
        ELSE NpExp(NegSumPLogP(p))

bergerparker_index(d, a) ==
    LET p == GroupbySize(d, a)
    IN  NpDiv(NpMax(p), NpSum(p))

ens(d, a) == truediversity(d, a, 1)

imbalanceRatio(d, a) ==
    LET counts == ToNumpy(ValueCounts(Column(d, a)))
    IN  NpDiv(NpMax(counts), NpMin(counts))

\* np.std(dist) * len(dist) / np.sqrt(len(dist) - 1); np.std of an empty
\* vector is NaN.
ScaledStd(dist) ==
    LET n == Len(dist)
        mean == RDiv(RSeqSum(dist), Rat(n, 1))
        var == RDiv(RSeqSum([i \in 1..n |->
                        RMul(RSub(dist[i], mean), RSub(dist[i], mean))]),
                    Rat(n, 1))
    IN  IF n = 0 THEN NaN
        ELSE NpSqrt(RDiv(RMul(var, Rat(n * n, 1)), Rat(n - 1, 1)))

nsd(d, a) ==
    LET counts == ToNumpy(ValueCounts(Column(d, a)))
        dist == Normalize(counts)
    IN  IF Len(counts) = 1 THEN NaN ELSE ScaledStd(dist)

richness(d, a) == IntV(NUnique(Column(d, a)))

\* Variant of shannon_diversity: the shortcut is taken up to two categories.
shannon_diversityUpToTwo(d, a) ==
    LET p == Normalize(GroupbySize(d, a))
    IN  IF Len(p) \in {1, 2} THEN [ret |-> IntV(0), path |-> "shortcut"]
        ELSE [ret |-> NegSumPLogP(p), path |-> "formula"]

\* [ret, path]: path tells the single-category shortcut from the formula.
shannon_diversity(d, a) ==
    LET p == Normalize(GroupbySize(d, a))
    IN  IF Len(p) = 1 THEN [ret |-> IntV(0), path |-> "shortcut"]
        ELSE [ret |-> NegSumPLogP(p), path |-> "formula"]

shannon_evenness(d, a) ==
    LET p == Normalize(GroupbySize(d, a))
        n == NegSumPLogP(p)
        dd == NpLog(IntV(Len(p)))
    IN  IF IsZero(n) /\ IsZero(dd) THEN NaN
        ELSE NpDiv(NegSumPLogP(p), NpLog(IntV(Len(p))))

simpsons(d, a) == NpDiv(IntV(1), truediversity(d, a, 2))

\* Variant of simpsons_diversity: the true diversity is not inverted.
simpsons_diversityNoInverse(d, a) == NpSub(IntV(1), truediversity(d, a, 2))

simpsons_diversity(d, a) ==
    NpSub(IntV(1), NpDiv(IntV(1), truediversity(d, a, 2)))

simpsons_reciprocal(d, a) == truediversity(d, a, 2)

(***************************************************************************)
(* The wrappers and the bias-oriented registry.  An entry is               *)
(* [wrapper, metric, supLimit]: the metric function itself (wrapper        *)
(* "none") or partial(complementary, metric=..., supLimit=...); supLimit   *)
(* names a metric or is "1.0", the default of the parameter.               *)
(***************************************************************************)
\* metric(df, x) for a metric function given by name.
Apply(metric, d, a) ==
    CASE metric = "richness" -> richness(d, a)
      [] metric = "ens" -> ens(d, a)
      [] metric = "simpsons" -> simpsons(d, a)
      [] metric = "simpsons_reciprocal" -> simpsons_reciprocal(d, a)
      [] metric = "simpsons_diversity" -> simpsons_diversity(d, a)
      [] metric = "shannon_diversity" -> shannon_diversity(d, a).ret
      [] metric = "shannon_evenness" -> shannon_evenness(d, a)
      [] metric = "nsd" -> nsd(d, a)
      [] metric = "imbalanceRatio" -> imbalanceRatio(d, a)
      [] metric = "bergerparker_index" -> bergerparker_index(d, a)

\* supLimit(df, x) if callable(supLimit) else supLimit; supLimit - metric(df, x)
complementary(d, a, metric, supLimit) ==
    NpSub(IF supLimit = "1.0" THEN IntV(1) ELSE Apply(supLimit, d, a),
          Apply(metric, d, a))

Plain(metric) == [wrapper |-> "none", metric |-> metric, supLimit |-> "none"]
Partial(metric, supLimit) ==
    [wrapper |-> "complementary", metric |-> metric, supLimit |-> supLimit]

\* Variant of MetricsAsBias: R-ENS is built without supLimit=richness.
MetricsAsBiasDefaultLimit ==
    [sym \in {"R-ENS", "D", "R-1/D", "1-SEI", "NSD", "IR", "BP"} |->
        CASE sym = "R-ENS" -> Partial("ens", "1.0")
          [] sym = "D" -> Plain("simpsons")
          [] sym = "R-1/D" -> Partial("simpsons_reciprocal", "richness")
          [] sym = "1-SEI" -> Partial("shannon_evenness", "1.0")
          [] sym = "NSD" -> Plain("nsd")
          [] sym = "IR" -> Plain("imbalanceRatio")
          [] sym = "BP" -> Plain("bergerparker_index")]

\* metrics_as_bias as the module builds it when it is loaded.
MetricsAsBias ==
    [sym \in {"R-ENS", "D", "R-1/D", "1-SEI", "NSD", "IR", "BP"} |->
        CASE sym = "R-ENS" -> Partial("ens", "richness")
          [] sym = "D" -> Plain("simpsons")
          [] sym = "R-1/D" -> Partial("simpsons_reciprocal", "richness")
          [] sym = "1-SEI" -> Partial("shannon_evenness", "1.0")
          [] sym = "NSD" -> Plain("nsd")
          [] sym = "IR" -> Plain("imbalanceRatio")
          [] sym = "BP" -> Plain("bergerparker_index")]

\* entry(df, x) for an entry of a registry.
CallEntry(entry, d, a) ==
    IF entry.wrapper = "complementary"
    THEN complementary(d, a, entry.metric, entry.supLimit)
    ELSE Apply(entry.metric, d, a)

(***************************************************************************)
(* The frame of one call: the objects it can reach (objs), the local names *)
(* bound to them (env, 0 = unbound) and the objects assigned in place      *)
(* (written).  Reference DatasetRef is the frame the caller passed; every  *)
(* other object is allocated by the call.  numpy arrays are objects        *)
(* without labels.                                                         *)
(***************************************************************************)
DatasetRef == 1

Locals ==
    {"dff", "df", "px", "py", "cross", "real", "expected_mat", "final",
     "positivesden", "negativesden", "pmi_mat", "logs", "pos", "neg", "mask"}

\* Entry of a function: its dataset parameter is bound to the caller's frame.
NewHeap(d, param) ==
    [objs |-> <<d>>, written |-> {},
     env |-> [v \in Locals |-> IF v = param THEN DatasetRef ELSE 0]]

Get(H, v) == H.objs[H.env[v]]

\* v = <new object>
Bind(H, v, obj) ==
    [objs |-> Append(H.objs, obj), written |-> H.written,
     env |-> [H.env EXCEPT ![v] = Len(H.objs) + 1]]

\* v = src.copy(): a new frame with the same labels and cells.
Copy(H, v, src) == Bind(H, v, Get(H, src))

\* Variant of SetAll: the assignment lands in the frame the caller passed.
SetAllInCaller(H, v, data) ==
    [H EXCEPT !.objs[DatasetRef].data = data, !.written = @ \cup {DatasetRef}]

\* v[:] = data, v[mask] = ...: assignment in place into the object behind v.
SetAll(H, v, data) ==
    [H EXCEPT !.objs[H.env[v]].data = data, !.written = @ \cup {H.env[v]}]

Array(data) == Frame(<<>>, <<>>, data)

\* pd.crosstab(df[a], df[b]): counts over the samples where neither value is
\* missing; both axes hold the labels seen in those samples, ascending.
Crosstab(d, a, b) ==
    LET ca == Column(d, a)
        cb == Column(d, b)
        keep == {i \in 1..Len(ca) : ~IsNA(ca[i]) /\ ~IsNA(cb[i])}
        idx == SortedSeq({ca[i] : i \in keep})
        cols == SortedSeq({cb[i] : i \in keep})
    IN  Frame(idx, cols,
              [r \in 1..Len(idx) |-> [c \in 1..Len(cols) |->
                  Cardinality({i \in keep : ca[i] = idx[r] /\ cb[i] = cols[c]})]])

RowSums(M) == [i \in 1..Len(M) |-> SeqSum(M[i])]
ColSums(M) ==
    IF M = <<>> THEN <<>>
    ELSE [j \in 1..Len(M[1]) |-> SeqSum([i \in 1..Len(M) |-> M[i][j]])]
Total(M) == SeqSum(RowSums(M))

\* m.to_numpy() / m.to_numpy().sum(): the joint probabilities.
Proportions(M) ==
    [i \in 1..Len(M) |-> [j \in 1..Len(M[i]) |-> Num(Rat(M[i][j], Total(M)))]]

\* value_counts(sort=False).sort_index().to_numpy() / sum: one marginal.
Marginal(d, a) == Normalize(ToNumpy(SortIndex(ValueCounts(Column(d, a)))))

\* px.dot(py): the independence baseline, one row per entry of px.
Outer(px, py) ==
    [i \in 1..Len(px) |-> [j \in 1..Len(py) |-> Num(RMul(px[i], py[j]))]]

\* The marginals have the shape of the table's axes.
Aligned(t, px, py) == Len(t.index) = Len(px) /\ Len(t.columns) = Len(py)

MatSub(A, B) ==
    [i \in 1..Len(A) |-> [j \in 1..Len(A[i]) |-> NpSub(A[i][j], B[i][j])]]
MatDiv(A, B) ==
    [i \in 1..Len(A) |-> [j \in 1..Len(A[i]) |-> NpDiv(A[i][j], B[i][j])]]
MatLog(A) == [i \in 1..Len(A) |-> [j \in 1..Len(A[i]) |-> NpLog(A[i][j])]]
MatNeg(A) == [i \in 1..Len(A) |-> [j \in 1..Len(A[i]) |-> NpNeg(A[i][j])]]

\* Boolean masks m > 0, m < 0, m != 0 (NaN compares false).
MaskGt0(A) == [i \in 1..Len(A) |-> [j \in 1..Len(A[i]) |-> Sign(A[i][j]) > 0]]
MaskLt0(A) == [i \in 1..Len(A) |-> [j \in 1..Len(A[i]) |-> Sign(A[i][j]) < 0]]
MaskNe0(A) == [i \in 1..Len(A) |-> [j \in 1..Len(A[i]) |-> Sign(A[i][j]) # 0]]

\* m[mask] = w: the cells of w where the mask holds, those of m elsewhere.
Where(mask, W, A) ==
    [i \in 1..Len(A) |-> [j \in 1..Len(A[i]) |->
        IF mask[i][j] THEN W[i][j] ELSE A[i][j]]]

\* A constant matrix of the shape of A.
Full(A, v) == [i \in 1..Len(A) |-> [j \in 1..Len(A[i]) |-> v]]

\* px = df[x].value_counts(sort=False).sort_index().to_numpy(); px / px.sum()
\* and the same for py, read from the frame bound to dn.
BindMarginals(H, dn, x, y) ==
    LET H1 == Bind(H, "px", Array(Marginal(Get(H, dn), x)))
    IN  Bind(H1, "py", Array(Marginal(Get(H, dn), y)))

\* t = pd.crosstab(df[x], df[y])
BindCrosstab(H, t, x, y) == Bind(H, t, Crosstab(Get(H, "df"), x, y))

\* real[:] = t.to_numpy() / t.to_numpy().sum()
NormaliseReal(H, t) == SetAll(H, "real", Proportions(Get(H, t).data))

\* expected_mat = px.dot(py)
BindExpected(H) ==
    Bind(H, "expected_mat", Array(Outer(Get(H, "px").data, Get(H, "py").data)))

AlignedH(H, t) == Aligned(Get(H, t), Get(H, "px").data, Get(H, "py").data)

\* The outcome of a call: the frame it leaves and its return value.
Done(H, ret) == [heap |-> H, ret |-> ret]
Raised(H) == [heap |-> H, ret |-> Error]

(***************************************************************************)
(* stereotypical.py.  Functions that only read return [ret, assoc]: assoc  *)
(* tells whether scipy's statistic was evaluated.                          *)
(***************************************************************************)
\* min(cross.shape) of a table
MinShape(t) ==
    IF Len(t.index) < Len(t.columns) THEN Len(t.index) ELSE Len(t.columns)

MaxShape(t) ==
    IF Len(t.index) > Len(t.columns) THEN Len(t.index) ELSE Len(t.columns)

\* scipy.stats.contingency.chi2_contingency / association on a table of
\* counts: raises on a table without cells, else the statistic of the table,
\* kept as a term.
Statistic(method, t) ==
    IF t.data = <<>> THEN Error
    ELSE [k |-> "stat", method |-> method, table |-> t.data]

chisq(d, x, y) ==
    LET cross == Crosstab(d, x, y)
    IN  [ret |-> Statistic("chi2_pvalue", cross), assoc |-> TRUE]

\* Variant of cramersv: the guard tests the larger side of the table.
cramersvMaxShape(d, x, y) ==
    LET cross == Crosstab(d, x, y)
    IN  IF MaxShape(cross) = 1 THEN [ret |-> NaN, assoc |-> FALSE]
        ELSE [ret |-> Statistic("cramer", cross), assoc |-> TRUE]

cramersv(d, x, y) ==
    LET cross == Crosstab(d, x, y)
    IN  IF MinShape(cross) = 1 THEN [ret |-> NaN, assoc |-> FALSE]
        ELSE [ret |-> Statistic("cramer", cross), assoc |-> TRUE]

pearson(d, x, y) ==
    LET cross == Crosstab(d, x, y)
    IN  [ret |-> Statistic("pearson", cross), assoc |-> TRUE]

tschuprow(d, x, y) ==
    LET cross == Crosstab(d, x, y)
    IN  IF MinShape(cross) = 1 THEN [ret |-> NaN, assoc |-> FALSE]
        ELSE [ret |-> Statistic("tschuprow", cross), assoc |-> TRUE]

\* The cells <<i, j>> of a matrix, row by row.
CellSeq(M) ==
    IF M = <<>> THEN <<>>
    ELSE [k \in 1..(Len(M) * Len(M[1])) |->
            <<((k - 1) \div Len(M[1])) + 1, ((k - 1) % Len(M[1])) + 1>>]

NonZeroCells(M) ==
    LET IsPos(c) == M[c[1]][c[2]] # 0 IN SelectSeq(CellSeq(M), IsPos)

\* dx = cross.sum(axis=1) / cross.sum(axis=None); hx = -np.sum(dx * np.log(dx))
hx(cross) ==
    LET total == Total(cross)
        dx == [i \in 1..Len(cross) |-> Rat(RowSums(cross)[i], total)]
    IN  NegSumALogB(dx, dx, total)

\* Variant of hxy: the logarithm is taken of the joint proportions.
hxyJoint(cross) ==
    LET total == Total(cross)
        cells == NonZeroCells(cross)
        dxy == [k \in 1..Len(cells) |->
                    Rat(cross[cells[k][1]][cells[k][2]], total)]
    IN  NegSumALogB(dxy, dxy, total)

\* dxy = cross / cross.sum(axis=None); dxgiveny = cross / cross.sum(axis=0);
\* hxy = -np.sum(dxy * np.log(dxgiveny)), the cells with dxgiveny == 0
\* counting 0.
hxy(cross) ==
    LET total == Total(cross)
        cells == NonZeroCells(cross)
        dxy == [k \in 1..Len(cells) |->
                    Rat(cross[cells[k][1]][cells[k][2]], total)]
        dxgiveny == [k \in 1..Len(cells) |->
                        Rat(cross[cells[k][1]][cells[k][2]],
                            ColSums(cross)[cells[k][2]])]
    IN  NegSumALogB(dxy, dxgiveny, total)

theilsu(d, x, y) ==
    LET cross == Crosstab(d, x, y).data
    IN  IF IsZero(NpSub(hx(cross), hxy(cross))) /\ IsZero(hx(cross)) THEN NaN
        ELSE NpDiv(NpSub(hx(cross), hxy(cross)), hx(cross))

\* Variant of theilsurev: the attributes are passed on in the order given.
theilsurevSameOrder(d, x, y) == theilsu(d, x, y)

theilsurev(d, x, y) == theilsu(d, y, x)

\* np.sum(real * np.log(pmi)) / (-np.sum(real * np.log(real))), the cells
\* with real == 0 set to 0 in both sums.  The denominator is the joint
\* entropy; the numerator is kept as a term over the cells that count.
NmiValue(realv, expected_mat) ==
    LET cells == NonZeroCells([i \in 1..Len(realv) |->
                     [j \in 1..Len(realv[i]) |-> realv[i][j].n]])
        p == [k \in 1..Len(cells) |-> R(realv[cells[k][1]][cells[k][2]])]
        q == [k \in 1..Len(cells) |-> R(expected_mat[cells[k][1]][cells[k][2]])]
        den == NegSumPLogP(p)
    IN  IF \A k \in 1..Len(cells) : p[k] = q[k] THEN NpDiv(IntV(0), den)
        ELSE NpDiv([k |-> "sumplog", p |-> p, q |-> q], den)

nmi(dff, x, y) ==
    LET H0 == NewHeap(dff, "dff")
        H1 == Copy(H0, "df", "dff")
        H2 == BindMarginals(H1, "df", x, y)
        H3 == BindCrosstab(H2, "real", x, y)
        H4 == NormaliseReal(H3, "real")
        H == BindExpected(H4)
    IN  IF AlignedH(H, "real")
        THEN Done(H, NmiValue(Get(H, "real").data, Get(H, "expected_mat").data))
        ELSE Raised(H)

(***************************************************************************)
(* local_stereotypical.py.  Each function returns [heap, ret]: the frame   *)
(* of the call when it ends and its return value (a DataFrame, or Error    *)
(* when it raises).                                                        *)
(***************************************************************************)
\* px, py, cross, real and expected_mat, as each of the three functions
\* builds them first.
Baseline(d, x, y) ==
    LET H0 == NewHeap(d, "df")
        H1 == BindMarginals(H0, "df", x, y)
        H2 == BindCrosstab(H1, "cross", x, y)
        H3 == Copy(H2, "real", "cross")
        H4 == NormaliseReal(H3, "cross")
    IN  BindExpected(H4)

\* final = real.copy(); final[:] = real - expected_mat
Deviation(H) ==
    SetAll(Copy(H, "final", "real"), "final",
           MatSub(Get(H, "real").data, Get(H, "expected_mat").data))

lewontinsd(d, x, y) ==
    LET H == Baseline(d, x, y)
        H1 == Deviation(H)
    IN  IF AlignedH(H, "cross") THEN Done(H1, Get(H1, "final")) ELSE Raised(H)

\* np.minimum(px, py) - expected_mat
PositivesDen(px, py, expected_mat) ==
    [i \in 1..Len(px) |-> [j \in 1..Len(py) |->
        NpSub(Num(RMin(px[i], py[j])), expected_mat[i][j])]]

\* expected_mat - np.maximum(0, px + py - 1)
NegativesDen(px, py, expected_mat) ==
    [i \in 1..Len(px) |-> [j \in 1..Len(py) |->
        NpSub(expected_mat[i][j],
              Num(RMax(RZero, RSub(RAdd(px[i], py[j]), ROne))))]]

\* positivesden = real.copy(); positivesden[:] = np.minimum(px, py) - ...
BindPositivesDen(H) ==
    SetAll(Copy(H, "positivesden", "real"), "positivesden",
           PositivesDen(Get(H, "px").data, Get(H, "py").data,
                        Get(H, "expected_mat").data))

\* negativesden = real.copy(); negativesden[:] = expected_mat - ...
BindNegativesDen(H) ==
    SetAll(Copy(H, "negativesden", "real"), "negativesden",
           NegativesDen(Get(H, "px").data, Get(H, "py").data,
                        Get(H, "expected_mat").data))

\* final[final > 0] /= positivesden[final > 0]; the mask stays as pos.
DividePositives(H) ==
    SetAll(Bind(H, "pos", Array(MaskGt0(Get(H, "final").data))), "final",
           Where(MaskGt0(Get(H, "final").data),
                 MatDiv(Get(H, "final").data, Get(H, "positivesden").data),
                 Get(H, "final").data))

\* Variant of DivideNegatives: the mask is final != 0, so the cells already
\* divided by positivesden are divided again.
DivideNegativesNonZero(H) ==
    SetAll(Bind(H, "neg", Array(MaskNe0(Get(H, "final").data))), "final",
           Where(MaskNe0(Get(H, "final").data),
                 MatDiv(Get(H, "final").data, Get(H, "negativesden").data),
                 Get(H, "final").data))

\* final[final < 0] /= negativesden[final < 0]; the mask stays as neg.
DivideNegatives(H) ==
    SetAll(Bind(H, "neg", Array(MaskLt0(Get(H, "final").data))), "final",
           Where(MaskLt0(Get(H, "final").data),
                 MatDiv(Get(H, "final").data, Get(H, "negativesden").data),
                 Get(H, "final").data))

duchersz(d, x, y) ==
    LET H == Baseline(d, x, y)
        H1 == Deviation(H)
        H2 == BindPositivesDen(H1)
        H3 == BindNegativesDen(H2)
        H4 == DividePositives(H3)
        H5 == DivideNegatives(H4)
    IN  IF AlignedH(H, "cross") THEN Done(H5, Get(H5, "final")) ELSE Raised(H)

\* pmi_mat = real.to_numpy() / expected_mat
BindPmi(H) ==
    Bind(H, "pmi_mat",
         Array(MatDiv(Get(H, "real").data, Get(H, "expected_mat").data)))

\* logs = -np.log(real.to_numpy())
BindLogs(H) == Bind(H, "logs", Array(MatNeg(MatLog(Get(H, "real").data))))

\* Variant of NormalisePmi: the ratio is divided without taking its logarithm.
NormalisePmiNoLog(H) ==
    Bind(H, "pmi_mat",
         Array(MatDiv(Get(H, "pmi_mat").data, Get(H, "logs").data)))

\* pmi_mat = np.log(pmi_mat) / logs
NormalisePmi(H) ==
    Bind(H, "pmi_mat",
         Array(MatDiv(MatLog(Get(H, "pmi_mat").data), Get(H, "logs").data)))

\* Variant of NpmiMask: the test real == 0 is left out.
NpmiMaskAnyReal(realv, expected_mat) ==
    [i \in 1..Len(realv) |-> [j \in 1..Len(realv[i]) |->
        Sign(expected_mat[i][j]) > 0]]

\* (real == 0) & (expected_mat > 0)
NpmiMask(realv, expected_mat) ==
    [i \in 1..Len(realv) |-> [j \in 1..Len(realv[i]) |->
        IsZero(realv[i][j]) /\ Sign(expected_mat[i][j]) > 0]]

\* pmi_mat[np.logical_and(...)] = -1; the mask stays as mask.
MaskPmi(H) ==
    SetAll(Bind(H, "mask", Array(NpmiMask(Get(H, "real").data,
                                          Get(H, "expected_mat").data))),
           "pmi_mat",
           Where(NpmiMask(Get(H, "real").data, Get(H, "expected_mat").data),
                 Full(Get(H, "pmi_mat").data, IntV(-1)),
                 Get(H, "pmi_mat").data))

\* final = real.copy(); final[:] = pmi_mat
FillFinal(H) == SetAll(Copy(H, "final", "real"), "final", Get(H, "pmi_mat").data)

npmi(d, x, y) ==
    LET H == Baseline(d, x, y)
        H1 == BindPmi(H)
        H2 == BindLogs(H1)
        H3 == NormalisePmi(H2)
        H4 == MaskPmi(H3)
        H5 == FillFinal(H4)
    IN  IF AlignedH(H, "cross") THEN Done(H5, Get(H5, "final")) ELSE Raised(H)

(***************************************************************************)
(* The state machine.                                                      *)
(***************************************************************************)
\* Datasets of at most MaxRows rows.  Rows are listed by non-increasing
\* (x, y), so the order of first appearance is never the sorted order.
RowRank(r) == r[1] * (Cardinality(CellValues) + 1) + r[2]
Datasets ==
    {s \in UNION {[1..n -> CellValues \X CellValues] : n \in 0..MaxRows} :
        \A i \in 1..(Len(s) - 1) : RowRank(s[i]) >= RowRank(s[i + 1])}

NoCall == [fn |-> "none", args |-> <<>>, ret |-> NaN]

Init ==
    /\ df \in {DataFrame(rows) : rows \in Datasets}
    /\ df0 = df
    /\ pc = "idle"
    /\ res = NoCall
    /\ heap = NewHeap(df, "df")
    /\ metrics_as_bias = MetricsAsBias

\* A call that only reads the dataset and returns a scalar.
Returns(fn, args, ret) ==
    /\ pc' = "returned"
    /\ res' = [fn |-> fn, args |-> args, ret |-> ret]
    /\ heap' = NewHeap(df, "df")
    /\ UNCHANGED <<df, df0, metrics_as_bias>>

CallTruediversity ==
    /\ pc = "idle"
    /\ \E a \in Attributes, q \in Degrees :
            Returns("truediversity", <<a, q>>, truediversity(df, a, q))
CallBergerparker ==
    /\ pc = "idle"
    /\ \E a \in Attributes :
            Returns("bergerparker_index", <<a>>, bergerparker_index(df, a))
CallEns ==
    /\ pc = "idle"
    /\ \E a \in Attributes : Returns("ens", <<a>>, ens(df, a))
CallImbalanceRatio ==
    /\ pc = "idle"
    /\ \E a \in Attributes : Returns("imbalanceRatio", <<a>>, imbalanceRatio(df, a))
CallNsd ==
    /\ pc = "idle"
    /\ \E a \in Attributes : Returns("nsd", <<a>>, nsd(df, a))
CallRichness ==
    /\ pc = "idle"
    /\ \E a \in Attributes : Returns("richness", <<a>>, richness(df, a))
CallShannonDiversity ==
    /\ pc = "idle"
    /\ \E a \in Attributes :
            /\ pc' = "returned"
            /\ res' = [fn |-> "shannon_diversity", args |-> <<a>>,
                       ret |-> shannon_diversity(df, a).ret,
                       path |-> shannon_diversity(df, a).path]
            /\ heap' = NewHeap(df, "df")
            /\ UNCHANGED <<df, df0, metrics_as_bias>>
CallShannonEvenness ==
    /\ pc = "idle"
    /\ \E a \in Attributes :
            Returns("shannon_evenness", <<a>>, shannon_evenness(df, a))
CallSimpsons ==
    /\ pc = "idle"
    /\ \E a \in Attributes : Returns("simpsons", <<a>>, simpsons(df, a))
CallSimpsonsDiversity ==
    /\ pc = "idle"
    /\ \E a \in Attributes :
            Returns("simpsons_diversity", <<a>>, simpsons_diversity(df, a))
CallSimpsonsReciprocal ==
    /\ pc = "idle"
    /\ \E a \in Attributes :
            Returns("simpsons_reciprocal", <<a>>, simpsons_reciprocal(df, a))

\* metrics_as_bias[sym](df, x): a call through the bias-oriented registry.
CallAsBias ==
    /\ pc = "idle"
    /\ \E sym \in DOMAIN metrics_as_bias, a \in Attributes :
            Returns("metrics_as_bias", <<sym, a>>,
                    CallEntry(metrics_as_bias[sym], df, a))

\* A two-attribute call that only reads the dataset.
Returns2(fn, args, r) ==
    /\ pc' = "returned"
    /\ res' = [fn |-> fn, args |-> args, ret |-> r.ret, assoc |-> r.assoc]
    /\ heap' = NewHeap(df, "df")
    /\ UNCHANGED <<df, df0, metrics_as_bias>>

CallChisq ==
    /\ pc = "idle"
    /\ \E p \in AttributePairs : Returns2("chisq", p, chisq(df, p[1], p[2]))
CallCramersv ==
    /\ pc = "idle"
    /\ \E p \in AttributePairs : Returns2("cramersv", p, cramersv(df, p[1], p[2]))
CallPearson ==
    /\ pc = "idle"
    /\ \E p \in AttributePairs : Returns2("pearson", p, pearson(df, p[1], p[2]))
CallTschuprow ==
    /\ pc = "idle"
    /\ \E p \in AttributePairs : Returns2("tschuprow", p, tschuprow(df, p[1], p[2]))
CallTheilsu ==
    /\ pc = "idle"
    /\ \E p \in AttributePairs :
            Returns("theilsu", p, theilsu(df, p[1], p[2]))
CallTheilsurev ==
    /\ pc = "idle"
    /\ \E p \in AttributePairs :
            Returns("theilsurev", p, theilsurev(df, p[1], p[2]))

\* When the marginals do not have the table's shape the call raises; on a
\* table without cells the library may also broadcast and hand back an
\* empty result.
Outcomes(r, empty) ==
    IF r.ret = Error /\ Get(r.heap, "real").data = <<>>
    THEN {r, [r EXCEPT !.ret = empty]}
    ELSE {r}

\* A call that builds frames: the caller's frame is what the heap holds
\* behind DatasetRef when the call ends.
ReturnsHeap(fn, args, r) ==
    /\ pc' = "returned"
    /\ res' = [fn |-> fn, args |-> args, ret |-> r.ret]
    /\ heap' = r.heap
    /\ df' = r.heap.objs[DatasetRef]
    /\ UNCHANGED <<df0, metrics_as_bias>>

CallNmi ==
    /\ pc = "idle"
    /\ \E p \in AttributePairs :
            \E r \in Outcomes(nmi(df, p[1], p[2]), NaN) :
                ReturnsHeap("nmi", p, r)
CallLewontinsd ==
    /\ pc = "idle"
    /\ \E p \in AttributePairs :
            \E r \in Outcomes(lewontinsd(df, p[1], p[2]), Frame(<<>>, <<>>, <<>>)) :
                ReturnsHeap("lewontinsd", p, r)
CallDuchersz ==
    /\ pc = "idle"
    /\ \E p \in AttributePairs :
            \E r \in Outcomes(duchersz(df, p[1], p[2]), Frame(<<>>, <<>>, <<>>)) :
                ReturnsHeap("duchersz", p, r)
CallNpmi ==
    /\ pc = "idle"
    /\ \E p \in AttributePairs :
            \E r \in Outcomes(npmi(df, p[1], p[2]), Frame(<<>>, <<>>, <<>>)) :
                ReturnsHeap("npmi", p, r)

\* The caller takes the outcome; the engine keeps nothing between calls.
Collect ==
    /\ pc = "returned"
    /\ pc' = "idle"
    /\ res' = NoCall
    /\ heap' = NewHeap(df, "df")
    /\ UNCHANGED <<df, df0, metrics_as_bias>>

Next ==
    \/ CallTruediversity
    \/ CallBergerparker
    \/ CallEns
    \/ CallImbalanceRatio
    \/ CallNsd
    \/ CallRichness
    \/ CallShannonDiversity
    \/ CallShannonEvenness
    \/ CallSimpsons
    \/ CallSimpsonsDiversity
    \/ CallSimpsonsReciprocal
    \/ CallAsBias
    \/ CallChisq
    \/ CallCramersv
    \/ CallNmi
    \/ CallPearson
    \/ CallTheilsu
    \/ CallTheilsurev
    \/ CallTschuprow
    \/ CallLewontinsd
    \/ CallDuchersz
    \/ CallNpmi
    \/ Collect

Spec == Init /\ [][Next]_vars

(***************************************************************************)
(* Properties.                                                             *)
(***************************************************************************)
Returned(fn) == pc = "returned" /\ res.fn = fn
IsFrame(v) == "index" \in DOMAIN v
Raises(v) == "n" \in DOMAIN v /\ v.k = "error"
CellsOf(M) ==
    {c \in (1..Len(M)) \X (1..Cardinality(Categories)) : c[2] <= Len(M[c[1]])}
Local(v) == Get(heap, v).data
At(M, c) == M[c[1]][c[2]]
SingleAttributeFns ==
    {"truediversity", "bergerparker_index", "ens", "imbalanceRatio", "nsd",
     "richness", "shannon_diversity", "shannon_evenness", "simpsons",
     "simpsons_diversity", "simpsons_reciprocal"}
Observed(a) == NUnique(Column(df, a))

\* C1: on a dataset with zero rows every single-attribute metric call ends in
\* the error outcome; none returns a number, an infinity or NaN.
C1_EmptyDatasetRaises ==
    (pc = "returned" /\ res.fn \in SingleAttributeFns /\ df.data = <<>>)
        => Raises(res.ret)

\* C2: no metric call changes the dataset: the frame the caller passed is
\* never assigned in place, and its rows are those it was handed with.
C2_DatasetUnchanged == DatasetRef \notin heap.written /\ df = df0

\* C2 witness: a call on a dataset with rows has assigned in place into
\* frames, all of them its own.
C2_Witness ==
    /\ pc = "returned"
    /\ res.fn \in {"nmi", "duchersz"}
    /\ heap.written # {}
    /\ df.data # <<>>

\* The value of an npmi cell before the special case: ln(real / expected)
\* over -ln(real).
PmiCell(r, e) == NpDiv(NpLog(NpDiv(r, e)), NpNeg(NpLog(r)))

\* C3 (as stated): in the matrix npmi returns for a dataset with rows, every
\* cell whose joint probability equals the independence baseline and is
\* positive is exactly 0, the cell with real = expected = 1 included.
C3_IndependentCellIsZero ==
    (Returned("npmi") /\ IsFrame(res.ret) /\ df.data # <<>>) =>
        \A c \in CellsOf(res.ret.data) :
            (At(Local("real"), c) = At(Local("expected_mat"), c)
                /\ Sign(At(Local("real"), c)) > 0)
            => At(res.ret.data, c) = IntV(0)

\* C3 (amended): in the matrix npmi returns, every cell whose joint
\* probability equals the independence baseline is exactly 0 when that
\* probability is positive and below 1, and NaN when it is 1 (0 / -0).
C3_IndependentCell ==
    (Returned("npmi") /\ IsFrame(res.ret) /\ df.data # <<>>) =>
        \A c \in CellsOf(res.ret.data) :
            (At(Local("real"), c) = At(Local("expected_mat"), c)
                /\ Sign(At(Local("real"), c)) > 0)
            => At(res.ret.data, c) =
                  IF At(Local("real"), c) = IntV(1) THEN NaN ELSE IntV(0)

\* C3 witness: npmi returned a matrix with an independent cell of
\* probability below 1, and its value is 0.
C3_Witness ==
    /\ Returned("npmi")
    /\ IsFrame(res.ret)
    /\ \E c \in CellsOf(res.ret.data) :
        /\ At(Local("real"), c) = At(Local("expected_mat"), c)
        /\ Sign(At(Local("real"), c)) > 0
        /\ At(Local("real"), c) # IntV(1)
        /\ At(res.ret.data, c) = IntV(0)

C5_LewontinMarginsZero ==
    (Returned("lewontinsd") /\ IsFrame(res.ret) /\ df.data # <<>>) =>
        LET D == res.ret.data
        IN  /\ \A i \in 1..Len(D) :
                  RSeqSum([j \in 1..Len(D[i]) |-> R(D[i][j])]) = RZero
            /\ \A j \in 1..Len(res.ret.columns) :
                  RSeqSum([i \in 1..Len(D) |-> R(D[i][j])]) = RZero

\* C6: theilsurev(df, x, y) gives the outcome of theilsu(df, y, x): the same
\* number, or NaN in both.
C6_TheilsurevSwaps ==
    Returned("theilsurev") => res.ret = theilsu(df, res.args[2], res.args[1])

\* C6 witness: theilsurev returned NaN on a dataset with rows where the
\* attribute it conditions on has one observed category, and theilsu in the
\* order given is a number.
C6_Witness ==
    /\ Returned("theilsurev")
    /\ df.data # <<>>
    /\ Observed(res.args[2]) = 1
    /\ res.ret = NaN
    /\ theilsu(df, res.args[1], res.args[2]) # NaN

\* The two denominators of duchersz for a cell, from the marginals and the
\* baseline the call computed.
PosDenCell(c) ==
    NpSub(Num(RMin(Local("px")[c[1]], Local("py")[c[2]])),
          At(Local("expected_mat"), c))
NegDenCell(c) ==
    NpSub(At(Local("expected_mat"), c),
          Num(RMax(RZero, RSub(RAdd(Local("px")[c[1]], Local("py")[c[2]]),
                               ROne))))
DevCell(c) == NpSub(At(Local("real"), c), At(Local("expected_mat"), c))

\* C7: in the matrix duchersz returns, a cell with real - expected = 0 is 0
\* and in neither mask; a cell with real - expected > 0 is the deviation
\* divided by min(p(x), p(y)) - expected and is not in the negative mask; a
\* cell with real - expected < 0 is the deviation divided by
\* expected - max(0, p(x) + p(y) - 1) and is not in the positive mask.
C7_OneDenominatorPerCell ==
    (Returned("duchersz") /\ IsFrame(res.ret) /\ df.data # <<>>) =>
        \A c \in CellsOf(res.ret.data) :
            CASE Sign(DevCell(c)) = 0 ->
                    /\ At(res.ret.data, c) = IntV(0)
                    /\ ~At(Local("pos"), c) /\ ~At(Local("neg"), c)
              [] Sign(DevCell(c)) > 0 ->
                    /\ At(res.ret.data, c) = NpDiv(DevCell(c), PosDenCell(c))
                    /\ At(Local("pos"), c) /\ ~At(Local("neg"), c)
              [] Sign(DevCell(c)) < 0 ->
                    /\ At(res.ret.data, c) = NpDiv(DevCell(c), NegDenCell(c))
                    /\ ~At(Local("pos"), c) /\ At(Local("neg"), c)

\* C7 witness: duchersz returned a matrix with a cell above and a cell below
\* the baseline, each divided by its own denominator.
C7_Witness ==
    /\ Returned("duchersz")
    /\ IsFrame(res.ret)
    /\ \E c, o \in CellsOf(res.ret.data) :
        /\ Sign(DevCell(c)) > 0
        /\ At(res.ret.data, c) = NpDiv(DevCell(c), PosDenCell(c))
        /\ At(res.ret.data, c) # DevCell(c)
        /\ Sign(DevCell(o)) < 0
        /\ At(res.ret.data, o) = NpDiv(DevCell(o), NegDenCell(o))
        /\ At(res.ret.data, o) # DevCell(o)

AssociationFns == {"cramersv", "tschuprow"}
Method(fn) == IF fn = "cramersv" THEN "cramer" ELSE "tschuprow"
Table == Crosstab(df, res.args[1], res.args[2])

\* C8 (as stated): cramersv and tschuprow return NaN, without evaluating the
\* statistic, when the table has exactly one row or exactly one column; when
\* both attributes have at least two observed categories they evaluate the
\* statistic and return its value.
C8_StatisticWhenTwoObserved ==
    (pc = "returned" /\ res.fn \in AssociationFns) =>
        /\ (Len(Table.index) = 1 \/ Len(Table.columns) = 1)
                => (res.ret = NaN /\ ~res.assoc)
        /\ (Observed(res.args[1]) >= 2 /\ Observed(res.args[2]) >= 2)
                => /\ res.assoc
                   /\ ~Raises(res.ret)
                   /\ res.ret = Statistic(Method(res.fn), Table)

\* C8 (amended): cramersv and tschuprow return NaN, without evaluating the
\* statistic, when the table has exactly one row or exactly one column; when
\* the table has at least two rows and at least two columns they evaluate
\* the statistic and return its value.
C8_StatisticWhenTwoByTwo ==
    (pc = "returned" /\ res.fn \in AssociationFns) =>
        /\ (Len(Table.index) = 1 \/ Len(Table.columns) = 1)
                => (res.ret = NaN /\ ~res.assoc)
        /\ (Len(Table.index) >= 2 /\ Len(Table.columns) >= 2)
                => /\ res.assoc
                   /\ ~Raises(res.ret)
                   /\ res.ret = Statistic(Method(res.fn), Table)

\* C8 witness: a call returned NaN without the statistic on a table of one
\* row and two columns.
C8_Witness ==
    /\ pc = "returned"
    /\ res.fn \in AssociationFns
    /\ Len(Table.index) = 1
    /\ Len(Table.columns) = 2
    /\ res.ret = NaN
    /\ ~res.assoc

\* C9: on a dataset with rows whose attribute has exactly one observed
\* category shannon_diversity returns 0 and shannon_evenness and nsd return
\* NaN, none raising; with two or more observed categories none of them
\* returns NaN and shannon_diversity does not take the shortcut.
C9_SingleCategory ==
    (pc = "returned" /\ df.data # <<>>
        /\ res.fn \in {"shannon_diversity", "shannon_evenness", "nsd"}) =>
        /\ ~Raises(res.ret)
        /\ Observed(res.args[1]) = 1 =>
              res.ret = IF res.fn = "shannon_diversity" THEN IntV(0) ELSE NaN
        /\ Observed(res.args[1]) >= 2 =>
              /\ res.ret # NaN
              /\ res.fn = "shannon_diversity" => res.path = "formula"

\* C9 witness: nsd returned NaN on a dataset of several rows with one
\* observed category.
C9_Witness ==
    /\ Returned("nsd")
    /\ Len(df.data) >= 2
    /\ Observed(res.args[1]) = 1
    /\ res.ret = NaN

\* S: the sum over the observed categories of the squared proportion.
SumOfSquares(a) ==
    LET col == Column(df, a)
        seen == SortedSeq({col[i] : i \in 1..Len(col)} \cap Categories)
        total == Cardinality({i \in 1..Len(col) : ~IsNA(col[i])})
    IN  RSeqSum([k \in 1..Len(seen) |->
            Rat(CountOf(col, seen[k]) * CountOf(col, seen[k]), total * total)])

SimpsonFns == {"simpsons", "simpsons_reciprocal", "simpsons_diversity"}
SimpsonsAgree ==
    CASE res.fn = "simpsons" -> res.ret = Num(SumOfSquares(res.args[1]))
      [] res.fn = "simpsons_reciprocal" ->
            /\ IsNum(res.ret)
            /\ RMul(R(res.ret), SumOfSquares(res.args[1])) = ROne
      [] res.fn = "simpsons_diversity" ->
            res.ret = Num(RSub(ROne, SumOfSquares(res.args[1])))

\* C10 (as stated): on every dataset with rows simpsons returns S,
\* simpsons_reciprocal returns 1/S (its product with S is 1) and
\* simpsons_diversity returns 1 - S.
C10_SimpsonsOnAnyRows ==
    (pc = "returned" /\ res.fn \in SimpsonFns /\ df.data # <<>>)
        => SimpsonsAgree

\* C10 (amended): on every dataset in which the attribute has at least one
\* observed category simpsons returns S, simpsons_reciprocal returns 1/S
\* (its product with S is 1) and simpsons_diversity returns 1 - S.
C10_SimpsonsOnObserved ==
    (pc = "returned" /\ res.fn \in SimpsonFns /\ Observed(res.args[1]) >= 1)
        => SimpsonsAgree

\* C10 witness: simpsons_reciprocal returned 1/S for an attribute with two
\* observed categories of different counts.
C10_Witness ==
    /\ Returned("simpsons_reciprocal")
    /\ Observed(res.args[1]) = 2
    /\ IsNum(res.ret)
    /\ res.ret # IntV(2)
    /\ RMul(R(res.ret), SumOfSquares(res.args[1])) = ROne

\* The symbols of the bias-oriented registry whose entry is the complementary
\* of metric m with superior limit l.
Inverted(m, l) ==
    {sym \in DOMAIN metrics_as_bias :
        metrics_as_bias[sym] = Partial(m, l)}

TheilsuGuard ==
    /\ IsZero(NpSub(hx(Table.data), hxy(Table.data)))
    /\ IsZero(hx(Table.data))

\* C12 (as stated): theilsu returns NaN exactly when H(X) = 0, which is
\* exactly when attribute x has a single observed category; H(X) = 0 makes
\* H(X|Y) = 0, so the guard fires whenever hx is 0 and the division is never
\* evaluated with hx = 0.
C12_NaNIffSingleObserved ==
    Returned("theilsu") =>
        /\ res.ret = NaN <=> IsZero(hx(Table.data))
        /\ IsZero(hx(Table.data)) <=> Observed(res.args[1]) = 1
        /\ IsZero(hx(Table.data)) => IsZero(hxy(Table.data))
        /\ IsZero(hx(Table.data)) => TheilsuGuard

\* C12 (amended): when some sample has both values, theilsu returns NaN
\* exactly when H(X) = 0, which is exactly when x takes a single category
\* among the samples that have both values (the table has one row);
\* H(X) = 0 makes H(X|Y) = 0, so the guard fires whenever hx is 0 and the
\* division is never evaluated with hx = 0: any other result is the finite
\* quotient (hx - hxy) / hx.
C12_NaNIffSingleRow ==
    (Returned("theilsu") /\ Table.data # <<>>) =>
        /\ res.ret = NaN <=> IsZero(hx(Table.data))
        /\ IsZero(hx(Table.data)) <=> Len(Table.index) = 1
        /\ IsZero(hx(Table.data)) => IsZero(hxy(Table.data))
        /\ IsZero(hx(Table.data)) => TheilsuGuard
        /\ ~TheilsuGuard =>
              /\ ~IsZero(hx(Table.data))
              /\ res.ret.k \notin {"nan", "inf", "error"}
              /\ res.ret = NpDiv(NpSub(hx(Table.data), hxy(Table.data)),
                                 hx(Table.data))

\* C12 witness: theilsu returned NaN through the guard on a table of one
\* row and two columns, where x has two observed categories in the dataset.
C12_Witness ==
    /\ Returned("theilsu")
    /\ Len(Table.index) = 1
    /\ Len(Table.columns) = 2
    /\ Observed(res.args[1]) = 2
    /\ TheilsuGuard
    /\ res.ret = NaN

BaselineFns == {"lewontinsd", "duchersz", "npmi", "nmi"}
NoMissing == \A i \in 1..Len(df.data) : \A j \in 1..2 : ~IsNA(df.data[i][j])

\* The labels behind a marginal vector, in its order.
MarginalIndex(a) ==
    LET vc == SortIndex(ValueCounts(Column(df, a)))
    IN  [i \in 1..Len(vc) |-> vc[i].key]

\* px and py of the call frame are the row sums and the column sums of real.
MarginalsAreSums ==
    /\ Len(Local("px")) = Len(Local("real"))
    /\ \A i \in 1..Len(Local("real")) :
          /\ Len(Local("py")) = Len(Local("real")[i])
          /\ Local("px")[i] =
                RSeqSum([j \in 1..Len(Local("real")[i]) |->
                            R(Local("real")[i][j])])
          /\ \A j \in 1..Len(Local("real")[i]) :
                Local("py")[j] =
                    RSeqSum([k \in 1..Len(Local("real")) |->
                                R(Local("real")[k][j])])

\* C13: in lewontinsd, duchersz, npmi and nmi, on every dataset, px and py
\* carry the categories of the table's axes in the same order and with the
\* same length, and are the row sums and the column sums of the
\* joint-probability table real.
C13_MarginalsMatchCrosstab ==
    (pc = "returned" /\ res.fn \in BaselineFns) =>
        /\ MarginalIndex(res.args[1]) = Table.index
        /\ MarginalIndex(res.args[2]) = Table.columns
        /\ MarginalsAreSums

\* With no missing value in the dataset the marginals are the sums of the
\* table and no call raises.
MarginalsMatchWithoutMissing ==
    (pc = "returned" /\ res.fn \in BaselineFns /\ NoMissing) =>
        /\ MarginalIndex(res.args[1]) = Table.index
        /\ MarginalIndex(res.args[2]) = Table.columns
        /\ MarginalsAreSums
        /\ df.data # <<>> => ~Raises(res.ret)

\* A call returned a matrix although py is not the column sums of real: the
\* axes agree, the samples counted do not.
MarginalsDifferOnSameAxes ==
    /\ pc = "returned"
    /\ res.fn \in BaselineFns
    /\ IsFrame(res.ret)
    /\ MarginalIndex(res.args[1]) = Table.index
    /\ MarginalIndex(res.args[2]) = Table.columns
    /\ ~MarginalsAreSums

\* a <= b for two finite numbers.
NumLe(a, b) == IsNum(a) /\ IsNum(b) /\ ~RLt(R(b), R(a))

\* The cell c of the matrix duchersz returned is a number in [-1, 1] of the
\* sign of real - expected, and the denominator of its side is strictly
\* positive and at least as large as the deviation.
DucherCellBounded(c) ==
    /\ NumLe(IntV(-1), At(res.ret.data, c))
    /\ NumLe(At(res.ret.data, c), IntV(1))
    /\ Sign(At(res.ret.data, c)) = Sign(DevCell(c))
    /\ Sign(DevCell(c)) > 0 =>
          /\ Sign(PosDenCell(c)) > 0
          /\ NumLe(DevCell(c), PosDenCell(c))
    /\ Sign(DevCell(c)) < 0 =>
          /\ Sign(NegDenCell(c)) > 0
          /\ NumLe(NpNeg(DevCell(c)), NegDenCell(c))

\* C14: on every dataset with rows, every cell of the matrix duchersz
\* returns lies in [-1, 1]: where real - expected > 0 the denominator
\* min(p(x), p(y)) - expected is strictly positive and at least
\* real - expected, where real - expected < 0 the denominator
\* expected - max(0, p(x) + p(y) - 1) is strictly positive and at least
\* expected - real, so nothing is divided by zero and no cell changes sign.
C14_DucherszInUnitRange ==
    (Returned("duchersz") /\ IsFrame(res.ret) /\ df.data # <<>>) =>
        \A c \in CellsOf(res.ret.data) : DucherCellBounded(c)

\* With no missing value in the dataset every cell of the matrix duchersz
\* returns is bounded as above.
DucherszInUnitRangeWithoutMissing ==
    (Returned("duchersz") /\ IsFrame(res.ret) /\ df.data # <<>> /\ NoMissing)
        => \A c \in CellsOf(res.ret.data) : DucherCellBounded(c)

\* duchersz has divided a positive deviation by a denominator of zero.
DucherszDividedByZero ==
    /\ Returned("duchersz")
    /\ IsFrame(res.ret)
    /\ \E c \in CellsOf(res.ret.data) :
          /\ Sign(DevCell(c)) > 0
          /\ IsZero(PosDenCell(c))
          /\ At(res.ret.data, c) = Inf(1)

\* duchersz has returned a finite cell outside [-1, 1].
DucherszCellAboveOne ==
    /\ Returned("duchersz")
    /\ IsFrame(res.ret)
    /\ \E c \in CellsOf(res.ret.data) :
          /\ IsNum(At(res.ret.data, c))
          /\ ~NumLe(At(res.ret.data, c), IntV(1))

=============================================================================
